---- MODULE Spec2Model ----
(***************************************************************************)
(* Model of the risk evaluator service (src/src/main.rs): startup, the     *)
(* POST /evaluate handler, the outbound chat-completion call and the       *)
(* first-'[' / last-']' extraction of the risk array.                      *)
(*                                                                         *)
(* Text is a sequence of symbols.  "[", "]", "{", "}", "," and " " are the *)
(* characters themselves, "Q" is the double quote, "a" is any other        *)
(* character, and "sev", "cat", "mit" stand for the key texts              *)
(* "severity":  "category":  "mitigation":  (quote, name, quote, colon),   *)
(* none of which holds a bracket, so slicing at brackets never cuts one.   *)
(***************************************************************************)
EXTENDS Integers, Sequences, FiniteSets, TLC

(* ---------------------------- bounds ----------------------------------- *)
NReq == 2
MaxLen == 4
MaxProse == 1
MaxItems == 2
MaxText == 1

(* ---------------------------- text ------------------------------------- *)
KeyChunks == {"sev", "cat", "mit"}

Strings(alphabet, n) == UNION {[1..k -> alphabet] : k \in 0..n}

RECURSIVE FindFrom(_, _, _)
FindFrom(s, ch, i) ==
  IF i > Len(s) THEN 0
  ELSE IF s[i] = ch THEN i
  ELSE FindFrom(s, ch, i + 1)

RECURSIVE RfindFrom(_, _, _)
RfindFrom(s, ch, i) ==
  IF i < 1 THEN 0
  ELSE IF s[i] = ch THEN i
  ELSE RfindFrom(s, ch, i - 1)

(* a search for '[' that takes the last match instead of the first *)
find_last(s, ch) == RfindFrom(s, ch, Len(s))

(* str::find: 1-based index of the first match, 0 for None *)
find(s, ch) == FindFrom(s, ch, 1)

(* a search for ']' that stops at the first match instead of the last *)
rfind_first(s, ch) == FindFrom(s, ch, 1)

(* str::rfind: 1-based index of the last match, 0 for None *)
rfind(s, ch) == RfindFrom(s, ch, Len(s))

(* ---------------------- serde_json::from_str --------------------------- *)
PErr == [ok |-> FALSE, val |-> <<>>, next |-> 0]
POk(v, n) == [ok |-> TRUE, val |-> v, next |-> n]

RECURSIVE SkipWs(_, _)
SkipWs(s, i) ==
  IF i <= Len(s) /\ s[i] = " " THEN SkipWs(s, i + 1) ELSE i

Peek(s, i) == IF i <= Len(s) THEN s[i] ELSE "EOF"

RECURSIVE StringEnd(_, _)
StringEnd(s, j) ==
  IF j > Len(s) THEN 0
  ELSE IF s[j] = "Q" THEN j
  ELSE IF s[j] \in KeyChunks THEN 0
  ELSE StringEnd(s, j + 1)

(* a JSON string: the text between two quotes *)
StringTo(s, i, j) ==
  IF j = 0 THEN PErr ELSE POk(SubSeq(s, i + 1, j - 1), j + 1)

StringAt(s, i) ==
  IF Peek(s, i) # "Q" THEN PErr ELSE StringTo(s, i, StringEnd(s, i + 1))

ParseString(s, i0) == StringAt(s, SkipWs(s, i0))

FieldOf(k) ==
  IF k = "sev" THEN "severity" ELSE IF k = "cat" THEN "category" ELSE "mitigation"

RiskItem(sv, ct, mt) == [severity |-> sv, category |-> ct, mitigation |-> mt]

(* a RiskItem written as an object: keys in any order, a repeated or a     *)
(* missing field is an error, as is a comma before the closing brace       *)
RECURSIVE ParseFields(_, _, _, _)

FieldNext(s, seen, j) ==
  IF Peek(s, j) = "}" THEN POk(seen, j + 1)
  ELSE IF Peek(s, j) = "," THEN ParseFields(s, j + 1, seen, FALSE)
  ELSE PErr

FieldValue(s, seen, f, v) ==
  IF ~v.ok THEN PErr
  ELSE FieldNext(s, [g \in (DOMAIN seen) \cup {f} |-> IF g = f THEN v.val ELSE seen[g]],
                 SkipWs(s, v.next))

FieldAt(s, i, seen, first) ==
  IF Peek(s, i) = "}" /\ first THEN POk(seen, i + 1)
  ELSE IF Peek(s, i) \notin KeyChunks THEN PErr
  ELSE IF FieldOf(s[i]) \in DOMAIN seen THEN PErr
  ELSE FieldValue(s, seen, FieldOf(s[i]), ParseString(s, i + 1))

ParseFields(s, i0, seen, first) == FieldAt(s, SkipWs(s, i0), seen, first)

MapItemDone(m) ==
  IF ~m.ok THEN PErr
  ELSE IF DOMAIN m.val # {"severity", "category", "mitigation"} THEN PErr
  ELSE POk(RiskItem(m.val["severity"], m.val["category"], m.val["mitigation"]), m.next)

ParseMapItem(s, i) == MapItemDone(ParseFields(s, i, <<>>, TRUE))

(* a RiskItem written as an array: exactly the three strings, in the order *)
(* of the fields                                                           *)
RECURSIVE ParseSeqFields(_, _, _)

SeqGot(s, got, v) ==
  IF ~v.ok THEN PErr ELSE ParseSeqFields(s, v.next, Append(got, v.val))

SeqAt(s, i, got) ==
  IF Len(got) = 3
    THEN IF Peek(s, i) = "]" THEN POk(RiskItem(got[1], got[2], got[3]), i + 1) ELSE PErr
  ELSE IF Len(got) > 0 /\ Peek(s, i) # "," THEN PErr
  ELSE SeqGot(s, got, ParseString(s, IF Len(got) = 0 THEN i ELSE i + 1))

ParseSeqFields(s, i0, got) == SeqAt(s, SkipWs(s, i0), got)

ParseSeqItem(s, i) == ParseSeqFields(s, i, <<>>)

ItemAt(s, i) ==
  IF Peek(s, i) = "{" THEN ParseMapItem(s, i + 1)
  ELSE IF Peek(s, i) = "[" THEN ParseSeqItem(s, i + 1)
  ELSE PErr

ParseItem(s, i0) == ItemAt(s, SkipWs(s, i0))

(* the elements of the array: a comma before the closing bracket is an     *)
(* error                                                                   *)
RECURSIVE ParseElements(_, _, _, _)

ElementNext(s, acc, j) ==
  IF Peek(s, j) = "]" THEN POk(acc, j + 1)
  ELSE IF Peek(s, j) = "," THEN ParseElements(s, j + 1, acc, FALSE)
  ELSE PErr

ElementDone(s, acc, e) ==
  IF ~e.ok THEN PErr ELSE ElementNext(s, Append(acc, e.val), SkipWs(s, e.next))

ElementAt(s, i, acc, first) ==
  IF Peek(s, i) = "]" /\ first THEN POk(acc, i + 1)
  ELSE ElementDone(s, acc, ParseItem(s, i))

ParseElements(s, i0, acc, first) == ElementAt(s, SkipWs(s, i0), acc, first)

(* nothing but whitespace may follow the array *)
FromStrEnd(s, r) ==
  IF ~r.ok THEN PErr
  ELSE IF SkipWs(s, r.next) <= Len(s) THEN PErr
  ELSE r

FromStrAt(s, i) ==
  IF Peek(s, i) # "[" THEN PErr
  ELSE FromStrEnd(s, ParseElements(s, i + 1, <<>>, TRUE))

(* serde_json::from_str::<Vec<RiskItem>> *)
FromStr(s) == FromStrAt(s, SkipWs(s, 1))

(* ------------------------- analyze_risks_ai ---------------------------- *)
AOk(risks, js) == [kind |-> "Ok", risks |-> risks, sliced |-> TRUE, json_str |-> js]
AErr(sl, js) == [kind |-> "Err", risks |-> <<>>, sliced |-> sl, json_str |-> js]
APanic == [kind |-> "Panic", risks |-> <<>>, sliced |-> FALSE, json_str |-> <<>>]

(* line 52: the parse of the slice; the slice was logged at line 50 *)
Parsed(json_str, risks) ==
  IF risks.ok THEN AOk(risks.val, json_str) ELSE AErr(TRUE, json_str)

(* lines 45-48: None from find or rfind is an error; the inclusive slice   *)
(* start..=end panics when start lies beyond end + 1                       *)
Slice(content, start, end) ==
  IF start = 0 THEN AErr(FALSE, <<>>)
  ELSE IF end = 0 THEN AErr(FALSE, <<>>)
  ELSE IF start > end + 1 THEN APanic
  ELSE Parsed(SubSeq(content, start, end), FromStr(SubSeq(content, start, end)))

(* lines 45-54 *)
extract(content) == Slice(content, find(content, "["), rfind(content, "]"))

(* lines 35-54: decode the body, take choices[0].message.content, extract  *)
analyze_body(b) ==
  IF b.kind # "json" THEN AErr(FALSE, <<>>)
  ELSE IF ~b.has_content THEN AErr(FALSE, <<>>)
  ELSE extract(b.content)

(* the fallback pair in the wrong order *)
FallbackRisks_swapped ==
  << RiskItem(<<"Medium">>, <<"Dependencies">>,
              <<"Check for alternatives and establish SLAs.">>),
     RiskItem(<<"High">>, <<"Timeline">>,
              <<"Add buffer time and revalidate milestones.">>) >>

FallbackRisks ==
  << RiskItem(<<"High">>, <<"Timeline">>,
              <<"Add buffer time and revalidate milestones.">>),
     RiskItem(<<"Medium">>, <<"Dependencies">>,
              <<"Check for alternatives and establish SLAs.">>) >>

FakeApiKey == "fake-api-key"

(* ----------------------------- inputs ---------------------------------- *)
Requests == 1..NReq

(* the process environment after dotenv(): OPENAI_API_KEY absent or set *)
EnvValues == {[set |-> FALSE, value |-> ""], [set |-> TRUE, value |-> "sk-live"]}

Builds == {"debug", "release"}

Descriptions == {<<"a">>, <<"a", "a">>}

(* inbound JSON bodies: with a string description, or without the field *)
Payloads ==
  {[has_description |-> TRUE, description |-> d] : d \in Descriptions}
    \cup {[has_description |-> FALSE, description |-> <<>>]}

Statuses == {200, 500}

(* replies of the model: short strings over the characters that matter to  *)
(* the extractor, arrays of risk records wrapped in prose, such arrays     *)
(* with one symbol lost, and records written as arrays of three strings    *)
GenChars == {"[", "]", ",", "Q", "a"}

ProseChars == {"a", "[", "]"}

Items ==
  {RiskItem(sv, ct, mt) : sv \in {<<>>, <<"a">>}, ct \in {<<"a">>},
                          mt \in Strings(ProseChars, MaxText)}

(* the items of the longer arrays *)
ListItems ==
  {RiskItem(sv, <<"a">>, mt) : sv \in {<<>>, <<"a">>}, mt \in {<<>>, <<"]">>}}

ItemSeqs == UNION {[1..k -> ListItems] : k \in 0..MaxItems}

RenderItem(it) ==
  <<"{", "sev", "Q">> \o it.severity \o <<"Q", ",", "cat", "Q">> \o it.category
    \o <<"Q", ",", " ", "mit", "Q">> \o it.mitigation \o <<"Q", "}">>

RenderSeqItem(it) ==
  <<"[", "Q">> \o it.severity \o <<"Q", ",", "Q">> \o it.category
    \o <<"Q", ",", "Q">> \o it.mitigation \o <<"Q", "]">>

RECURSIVE RenderItems(_, _)
RenderItems(t, i) ==
  IF i > Len(t) THEN <<>>
  ELSE (IF i > 1 THEN <<",">> ELSE <<>>) \o RenderItem(t[i]) \o RenderItems(t, i + 1)

Render(t) == <<"[">> \o RenderItems(t, 1) \o <<"]">>

Remove(s, i) == SubSeq(s, 1, i - 1) \o SubSeq(s, i + 1, Len(s))

(* one record in an array, any prose (brackets included) around it *)
Wrapped ==
  {pre \o Render(<<it>>) \o post :
     pre \in Strings(ProseChars, MaxProse), post \in Strings(ProseChars, MaxProse),
     it \in Items}

(* longer arrays, prose without brackets around them *)
WrappedLists ==
  {pre \o Render(t) \o post :
     pre \in Strings({"a"}, MaxProse), post \in Strings({"a"}, MaxProse),
     t \in ItemSeqs}

Damaged ==
  UNION {{Remove(Render(<<it>>), i) : i \in 1..Len(Render(<<it>>))} : it \in Items}

SeqForms == {<<"[">> \o RenderSeqItem(it) \o <<"]">> : it \in Items}

Contents ==
  Strings(GenChars, MaxLen) \cup Wrapped \cup WrappedLists \cup Damaged \cup SeqForms

(* the replies used when several requests are in flight: the orderings of  *)
(* an opening bracket, a closing bracket and one other character           *)
SrvContents == {c \in [1..3 -> ProseChars] : {c[i] : i \in 1..3} = ProseChars}

JsonBody(c) == [kind |-> "json", has_content |-> TRUE, content |-> c]

Bodies(contents) ==
  {[kind |-> "undecodable", has_content |-> FALSE, content |-> <<>>],
   [kind |-> "json", has_content |-> FALSE, content |-> <<>>]}
    \cup {JsonBody(c) : c \in contents}

(* ------------------------------ state ---------------------------------- *)
VARIABLES build, env, mainpc, openai_api_key, state, routed, bound,
          pc, payload, call, awaiting, upstream, log, resp

vars == <<build, env, mainpc, openai_api_key, state, routed, bound,
          pc, payload, call, awaiting, upstream, log, resp>>

mainvars == <<build, env, mainpc, openai_api_key, state, routed, bound>>

NoState == [built |-> FALSE, openai_api_key |-> ""]
NoPayload == [has_description |-> FALSE, description |-> <<>>]
NoCall == [made |-> FALSE, bearer |-> "", text |-> <<>>]
NoReply == [kind |-> "none", status |-> 0, body |-> [kind |-> "none", has_content |-> FALSE, content |-> <<>>]]
NoLog == [sliced |-> FALSE, json_str |-> <<>>]
NoResp == [sent |-> FALSE, status |-> 0, has_risks |-> FALSE, risks |-> <<>>]

RiskResponse(risks) == [sent |-> TRUE, status |-> 200, has_risks |-> TRUE, risks |-> risks]

(* axum's Json extractor rejects the body before the handler runs *)
Rejection == [sent |-> TRUE, status |-> 422, has_risks |-> FALSE, risks |-> <<>>]

Init ==
  /\ build \in Builds
  /\ env \in EnvValues
  /\ mainpc = "start"
  /\ openai_api_key = ""
  /\ state = NoState
  /\ routed = FALSE
  /\ bound = FALSE
  /\ pc = [r \in Requests |-> "Idle"]
  /\ payload = [r \in Requests |-> NoPayload]
  /\ call = [r \in Requests |-> NoCall]
  /\ awaiting = [r \in Requests |-> "none"]
  /\ upstream = [r \in Requests |-> NoReply]
  /\ log = [r \in Requests |-> NoLog]
  /\ resp = [r \in Requests |-> NoResp]

reqvars == <<pc, payload, call, awaiting, upstream, log, resp>>

(* ------------------------------- main ---------------------------------- *)
(* a loader that substitutes the placeholder in every build *)
LoadKey_always_placeholder ==
  /\ mainpc = "start"
  /\ openai_api_key' = IF env.set THEN env.value ELSE FakeApiKey
  /\ mainpc' = "key_loaded"
  /\ UNCHANGED <<build, env, state, routed, bound, reqvars>>

(* lines 96-104 *)
LoadKey ==
  /\ mainpc = "start"
  /\ IF env.set
        THEN /\ openai_api_key' = env.value
             /\ mainpc' = "key_loaded"
        ELSE IF build = "debug"
               THEN /\ openai_api_key' = FakeApiKey
                    /\ mainpc' = "key_loaded"
               ELSE /\ openai_api_key' = openai_api_key
                    /\ mainpc' = "panicked"
  /\ UNCHANGED <<build, env, state, routed, bound, reqvars>>

(* line 106 *)
BuildState ==
  /\ mainpc = "key_loaded"
  /\ state' = [built |-> TRUE, openai_api_key |-> openai_api_key]
  /\ mainpc' = "state_built"
  /\ UNCHANGED <<build, env, openai_api_key, routed, bound, reqvars>>

(* lines 110-118 *)
RegisterRoute ==
  /\ mainpc = "state_built"
  /\ routed' = TRUE
  /\ mainpc' = "routed"
  /\ UNCHANGED <<build, env, openai_api_key, state, bound, reqvars>>

(* lines 120-126: bind succeeds and the server starts serving *)
Bind ==
  /\ mainpc = "routed"
  /\ bound' = TRUE
  /\ mainpc' = "listening"
  /\ UNCHANGED <<build, env, openai_api_key, state, routed, reqvars>>

(* line 121: bind fails (port taken) and unwrap panics *)
BindFails ==
  /\ mainpc = "routed"
  /\ mainpc' = "panicked"
  /\ UNCHANGED <<build, env, openai_api_key, state, routed, bound, reqvars>>

(* --------------------------- evaluate_risks ---------------------------- *)
(* a RiskRequest whose description defaults to the empty string *)
Arrive_defaulting(r, p) ==
  /\ mainpc = "listening"
  /\ pc[r] = "Idle"
  /\ payload' = [payload EXCEPT ![r] = p]
  /\ pc' = [pc EXCEPT ![r] = "Received"]
  /\ UNCHANGED <<mainvars, call, awaiting, upstream, log, resp>>

(* lines 129-133: the framework decodes the body into RiskRequest; a body  *)
(* without description never enters the handler                            *)
Arrive(r, p) ==
  /\ mainpc = "listening"
  /\ pc[r] = "Idle"
  /\ payload' = [payload EXCEPT ![r] = p]
  /\ IF p.has_description
        THEN /\ pc' = [pc EXCEPT ![r] = "Received"]
             /\ resp' = resp
        ELSE /\ pc' = [pc EXCEPT ![r] = "Rejected"]
             /\ resp' = [resp EXCEPT ![r] = Rejection]
  /\ UNCHANGED <<mainvars, call, awaiting, upstream, log>>

Prompt(project_text) ==
  <<"Analyze the following project description and return risks:\n\n">> \o project_text

(* a handler that keeps the last description in the shared state *)
Invoke_writes_state(r) ==
  /\ pc[r] = "Received"
  /\ call' = [call EXCEPT ![r] =
       [made |-> TRUE, bearer |-> state.openai_api_key, text |-> Prompt(payload[r].description)]]
  /\ pc' = [pc EXCEPT ![r] = "LLMCallInFlight"]
  /\ awaiting' = [awaiting EXCEPT ![r] = "send"]
  /\ state' = [state EXCEPT !.openai_api_key = "overwritten"]
  /\ UNCHANGED <<build, env, mainpc, openai_api_key, routed, bound, payload, upstream, log, resp>>

(* lines 135, 5-33: the handler calls analyze_risks_ai, which posts the    *)
(* request with the key of AppState and suspends on send()                 *)
Invoke(r) ==
  /\ pc[r] = "Received"
  /\ call' = [call EXCEPT ![r] =
       [made |-> TRUE, bearer |-> state.openai_api_key, text |-> Prompt(payload[r].description)]]
  /\ pc' = [pc EXCEPT ![r] = "LLMCallInFlight"]
  /\ awaiting' = [awaiting EXCEPT ![r] = "send"]
  /\ UNCHANGED <<mainvars, payload, upstream, log, resp>>

(* the upstream: the call fails in transport *)
UpstreamFails(r) ==
  /\ pc[r] = "LLMCallInFlight"
  /\ awaiting[r] = "send"
  /\ upstream[r].kind = "none"
  /\ upstream' = [upstream EXCEPT ![r] = [NoReply EXCEPT !.kind = "transport"]]
  /\ UNCHANGED <<mainvars, pc, payload, call, awaiting, log, resp>>

(* the upstream: a response head with any status arrives *)
UpstreamHead(r, st) ==
  /\ pc[r] = "LLMCallInFlight"
  /\ awaiting[r] = "send"
  /\ upstream[r].kind = "none"
  /\ upstream' = [upstream EXCEPT ![r] = [NoReply EXCEPT !.kind = "head", !.status = st]]
  /\ UNCHANGED <<mainvars, pc, payload, call, awaiting, log, resp>>

(* the upstream: the response body arrives *)
UpstreamBody(r, b) ==
  /\ pc[r] = "LLMCallInFlight"
  /\ awaiting[r] = "json"
  /\ upstream[r].kind = "head"
  /\ upstream' = [upstream EXCEPT ![r] = [@ EXCEPT !.kind = "full", !.body = b]]
  /\ UNCHANGED <<mainvars, pc, payload, call, awaiting, log, resp>>

(* lines 136-152: the two arms of the match in evaluate_risks *)
Respond(r, a) ==
  IF a.kind = "Ok"
    THEN /\ pc' = [pc EXCEPT ![r] = "Success"]
         /\ resp' = [resp EXCEPT ![r] = RiskResponse(a.risks)]
    ELSE IF a.kind = "Err"
      THEN /\ pc' = [pc EXCEPT ![r] = "Fallback"]
           /\ resp' = [resp EXCEPT ![r] = RiskResponse(FallbackRisks)]
      ELSE /\ pc' = [pc EXCEPT ![r] = "Panicked"]
           /\ resp' = resp

(* lines 28-35: the task is polled after send() completed; an error goes   *)
(* to the Err arm, any response (whatever its status) goes on to json()    *)
ResumeSend(r) ==
  /\ pc[r] = "LLMCallInFlight"
  /\ awaiting[r] = "send"
  /\ upstream[r].kind \in {"transport", "head"}
  /\ IF upstream[r].kind = "transport"
        THEN /\ Respond(r, AErr(FALSE, <<>>))
             /\ awaiting' = [awaiting EXCEPT ![r] = "none"]
        ELSE /\ awaiting' = [awaiting EXCEPT ![r] = "json"]
             /\ UNCHANGED <<pc, resp>>
  /\ UNCHANGED <<mainvars, payload, call, upstream, log>>

(* lines 35-54, 136-152: the task is polled after the body arrived *)
ResumeBody(r) ==
  /\ pc[r] = "LLMCallInFlight"
  /\ awaiting[r] = "json"
  /\ upstream[r].kind = "full"
  /\ \E a \in {analyze_body(upstream[r].body)} :
       /\ Respond(r, a)
       /\ log' = [log EXCEPT ![r] = [sliced |-> a.sliced, json_str |-> a.json_str]]
  /\ awaiting' = [awaiting EXCEPT ![r] = "none"]
  /\ UNCHANGED <<mainvars, payload, call, upstream>>

MainStep == LoadKey \/ BuildState \/ RegisterRoute \/ Bind \/ BindFails

HandlerStep(r) == Invoke(r) \/ ResumeSend(r) \/ ResumeBody(r)

(* several requests in flight *)
Next ==
  \/ MainStep
  \/ \E r \in Requests :
       \/ \E p \in Payloads : Arrive(r, p)
       \/ HandlerStep(r)
       \/ UpstreamFails(r)
       \/ UpstreamHead(r, 200)
       \/ \E b \in Bodies(SrvContents) : UpstreamBody(r, b)

Spec == Init /\ [][Next]_vars

(* the tokio runtime polls every woken task and main runs on; nothing      *)
(* makes the upstream answer                                               *)
FairSpec ==
  /\ Spec
  /\ WF_vars(MainStep)
  /\ \A r \in Requests : WF_vars(HandlerStep(r))

(* one request, every status and every reply *)
ExtractNext ==
  \/ MainStep
  \/ \E p \in Payloads : Arrive(1, p)
  \/ HandlerStep(1)
  \/ UpstreamFails(1)
  \/ \E st \in Statuses : UpstreamHead(1, st)
  \/ \E b \in Bodies(Contents) : UpstreamBody(1, b)

(* the production configuration: a release build with the key set *)
ExtractInit == Init /\ build = "release" /\ env.set

ExtractSpec == ExtractInit /\ [][ExtractNext]_vars

(* ------------------------ vocabulary of the claims --------------------- *)
Positions(c, ch) == {i \in 1..Len(c) : c[i] = ch}

FirstOf(S) == CHOOSE i \in S : \A k \in S : i <= k

LastOf(S) == CHOOSE i \in S : \A k \in S : k <= i

(* the handler of r has run to its end *)
Handled(r) == pc[r] \in {"Success", "Fallback", "Panicked"}

(* the handler of r has run to its end on a reply that carried content *)
HandledContent(r) ==
  /\ Handled(r)
  /\ upstream[r].kind = "full"
  /\ upstream[r].body.kind = "json"
  /\ upstream[r].body.has_content

ContentOf(r) == upstream[r].body.content

(* the upstream answered r with status 200 *)
Answered200(r) == upstream[r].kind = "full" /\ upstream[r].status = 200

TheFallback ==
  [sent |-> TRUE, status |-> 200, has_risks |-> TRUE,
   risks |-> << [severity |-> <<"High">>, category |-> <<"Timeline">>,
                 mitigation |-> <<"Add buffer time and revalidate milestones.">>],
                [severity |-> <<"Medium">>, category |-> <<"Dependencies">>,
                 mitigation |-> <<"Check for alternatives and establish SLAs.">>] >>]

(* the failures C1 lists, read off the reply *)
ListedFailure(r) ==
  \/ upstream[r].kind = "transport"
  \/ /\ upstream[r].kind = "full"
     /\ \/ upstream[r].body.kind = "undecodable"
        \/ ~upstream[r].body.has_content
        \/ Positions(ContentOf(r), "[") = {}
        \/ Positions(ContentOf(r), "]") = {}
        \/ LET i == FirstOf(Positions(ContentOf(r), "["))
               j == LastOf(Positions(ContentOf(r), "]")) IN
           i < j /\ ~FromStr(SubSeq(ContentOf(r), i, j)).ok

(* C1: every listed failure of the client or of the extractor (transport   *)
(* failure, undecodable body, missing content, no '[' or no ']', text      *)
(* between the delimiters that does not parse) ends in Fallback with       *)
(* exactly the fixed pair High/Timeline, Medium/Dependencies, in order.    *)
C1_FailureGivesFallback ==
  \A r \in Requests :
    (Handled(r) /\ ListedFailure(r)) => (pc[r] = "Fallback" /\ resp[r] = TheFallback)

C1_Witness ==
  \E r \in Requests :
    /\ pc[r] = "Fallback"
    /\ HandledContent(r)
    /\ ContentOf(r) = <<"a", "[", ",", "]">>
    /\ log[r].sliced
    /\ resp[r] = TheFallback

(* C2: every well-formed request whose upstream call returned (here: with  *)
(* status 200) or failed ends in Success or Fallback with status 200 and a *)
(* risks body, whatever the content, also when the last ']' lies before    *)
(* the first '['.                                                          *)
C2_WellFormedAlways200 ==
  \A r \in Requests :
    (payload[r].has_description /\ awaiting[r] = "none"
       /\ (upstream[r].kind = "transport" \/ Answered200(r)))
      => (pc[r] \in {"Success", "Fallback"} /\ resp[r].sent
            /\ resp[r].status = 200 /\ resp[r].has_risks)

(* the ways to read the content as prose, a well-formed array from d[1]   *)
(* to d[2], prose                                                          *)
Decomps(c) ==
  {d \in Positions(c, "[") \X Positions(c, "]") :
     /\ 1 < d[1] /\ d[1] <= d[2] /\ d[2] < Len(c)
     /\ FromStr(SubSeq(c, d[1], d[2])).ok}

(* C3 as stated: a well-formed array of risk records wrapped in any prose  *)
(* (in a reply with status 200) is extracted: the response holds exactly   *)
(* its elements, in order.                                                 *)
C3_AnyProseIgnored ==
  \A r \in Requests :
    (HandledContent(r) /\ Answered200(r)) =>
      \A d \in Decomps(ContentOf(r)) :
        /\ pc[r] = "Success"
        /\ resp[r] = [sent |-> TRUE, status |-> 200, has_risks |-> TRUE,
                       risks |-> FromStr(SubSeq(ContentOf(r), d[1], d[2])).val]

(* C3 amended: a well-formed array of risk records wrapped in prose with   *)
(* no '[' before the array and no ']' after it is extracted: the response  *)
(* holds exactly its elements, in order, each string verbatim.             *)
C3_BracketFreeProseIgnored ==
  \A r \in Requests :
    HandledContent(r) =>
      \A d \in Decomps(ContentOf(r)) :
        (/\ \A i \in 1..(d[1] - 1) : ContentOf(r)[i] # "["
         /\ \A i \in (d[2] + 1)..Len(ContentOf(r)) : ContentOf(r)[i] # "]")
          => /\ pc[r] = "Success"
             /\ resp[r] = [sent |-> TRUE, status |-> 200, has_risks |-> TRUE,
                            risks |-> FromStr(SubSeq(ContentOf(r), d[1], d[2])).val]

C3_Witness ==
  \E r \in Requests :
    LET t == << RiskItem(<<"a">>, <<"a">>, <<"]">>), RiskItem(<<>>, <<"a">>, <<>>) >> IN
    /\ HandledContent(r)
    /\ ContentOf(r) = <<"a">> \o Render(t) \o <<"a">>
    /\ pc[r] = "Success"
    /\ resp[r].risks = t

(* C4: a non-2xx response of the upstream is an error of the client, so    *)
(* the response that is sent is the fallback, whatever the body of the     *)
(* non-2xx response is.                                                    *)
C4_Non2xxGivesFallback ==
  \A r \in Requests :
    (Handled(r) /\ upstream[r].kind = "full" /\ upstream[r].status \notin 200..299
       /\ resp[r].sent)
      => (pc[r] = "Fallback" /\ resp[r] = TheFallback)

(* C5: the extractor fails with an error value when '[' or ']' is absent;  *)
(* otherwise it parses exactly the text from the first '[' to the last ']' *)
(* inclusive and yields that parse's result or a parse error; no content   *)
(* (of a reply with status 200) has a third outcome.                       *)
C5_ExtractorTwoOutcomes ==
  \A r \in Requests :
    (HandledContent(r) /\ Answered200(r)) =>
      LET c == ContentOf(r) IN
      IF Positions(c, "[") = {} \/ Positions(c, "]") = {}
        THEN pc[r] = "Fallback" /\ ~log[r].sliced
        ELSE LET js == SubSeq(c, FirstOf(Positions(c, "[")), LastOf(Positions(c, "]"))) IN
             /\ log[r].sliced
             /\ log[r].json_str = js
             /\ \/ pc[r] = "Success" /\ FromStr(js).ok /\ resp[r].risks = FromStr(js).val
                \/ pc[r] = "Fallback" /\ ~FromStr(js).ok

(* C6: the response is a function of the description and of the upstream  *)
(* reply only: two requests with the same description and the same reply   *)
(* end alike whatever else was or is being handled, every call carries the *)
(* key of AppState, and no step after startup changes AppState.            *)
C6_ResponseDependsOnRequestOnly ==
  /\ [](\A r1, r2 \in Requests :
          (Handled(r1) /\ Handled(r2) /\ payload[r1] = payload[r2]
             /\ upstream[r1] = upstream[r2])
            => (resp[r1] = resp[r2] /\ pc[r1] = pc[r2] /\ call[r1] = call[r2]))
  /\ [](\A r \in Requests : call[r].made => call[r].bearer = state.openai_api_key)
  /\ [][state.built => state' = state]_vars

C6_Witness ==
  \E r1, r2 \in Requests :
    /\ r1 # r2
    /\ pc[r1] = "Success" /\ pc[r2] = "Success"
    /\ payload[r1] = payload[r2]
    /\ upstream[r1] = upstream[r2]
    /\ resp[r1] = resp[r2]

(* C7: a body without description is rejected before the handler: the     *)
(* handler is never entered for it, no outbound call is made for it, and   *)
(* it gets neither the Success nor the Fallback risks payload.             *)
C7_MissingDescriptionRejected ==
  \A r \in Requests :
    (pc[r] # "Idle" /\ ~payload[r].has_description)
      => /\ pc[r] = "Rejected"
         /\ ~call[r].made
         /\ upstream[r] = NoReply
         /\ ~resp[r].has_risks

C7_Witness ==
  \E r \in Requests :
    pc[r] = "Rejected" /\ ~payload[r].has_description /\ resp[r].sent

(* C8: a request whose upstream call never returns stays in                *)
(* LLMCallInFlight (nothing but an upstream event moves it), and every     *)
(* other request whose upstream call returned or failed eventually gets    *)
(* its response.                                                           *)
C8_HungStaysOthersAnswered ==
  /\ [][\A r \in Requests :
          (pc[r] = "LLMCallInFlight" /\ upstream[r].kind = "none"
             /\ upstream'[r].kind = "none") => pc'[r] = "LLMCallInFlight"]_vars
  /\ \A r \in Requests :
       (upstream[r].kind \in {"transport", "full"}) ~> resp[r].sent

(* C9: with OPENAI_API_KEY absent a release build halts before AppState is *)
(* built, the route registered or the socket bound, and serves nothing; a  *)
(* debug build takes the placeholder "fake-api-key" and does not halt at   *)
(* the loader; a present value is used unchanged in both builds.           *)
C9_StartupKey ==
  /\ (~env.set /\ build = "release")
       => /\ mainpc \in {"start", "panicked"}
          /\ ~state.built /\ ~routed /\ ~bound
          /\ \A r \in Requests : pc[r] = "Idle" /\ ~resp[r].sent
  /\ (~env.set /\ build = "debug" /\ mainpc # "start")
       => /\ openai_api_key = "fake-api-key"
          /\ state.built => state.openai_api_key = "fake-api-key"
          /\ mainpc = "panicked" => routed
  /\ (env.set /\ mainpc # "start")
       => /\ openai_api_key = env.value
          /\ state.built => state.openai_api_key = env.value
          /\ mainpc = "panicked" => routed

C9_Witness ==
  /\ ~env.set /\ build = "debug"
  /\ mainpc = "listening"
  /\ state.openai_api_key = "fake-api-key"
  /\ \E r \in Requests : call[r].made /\ call[r].bearer = "fake-api-key"

(* a reply that is one well-formed array of risk objects, nothing around   *)
(* it, with a ']' inside a mitigation                                     *)
ArrayWithInnerClose(c) ==
  /\ Len(c) >= 2 /\ c[1] = "[" /\ c[Len(c)] = "]"
  /\ FromStr(c).ok
  /\ c = Render(FromStr(c).val)
  /\ \E k \in 1..Len(FromStr(c).val) :
       Positions(FromStr(c).val[k].mitigation, "]") # {}

(* C10 as stated: when the reply (with status 200) is one well-formed      *)
(* array and a mitigation holds a ']' before the closing bracket, the      *)
(* slice that is parsed stops short of the closing bracket and the         *)
(* elements are not returned.                                              *)
C10_InnerCloseTruncates ==
  \A r \in Requests :
    (HandledContent(r) /\ Answered200(r) /\ ArrayWithInnerClose(ContentOf(r)))
      => /\ Len(log[r].json_str) < Len(ContentOf(r))
         /\ ~(pc[r] = "Success" /\ resp[r].risks = FromStr(ContentOf(r)).val)

(* C10 amended: when the reply is one well-formed array and a mitigation   *)
(* holds a ']' before the closing bracket, the slice still ends at the     *)
(* closing bracket (the last ']'), and the elements are returned.          *)
C10_InnerCloseKept ==
  \A r \in Requests :
    (HandledContent(r) /\ ArrayWithInnerClose(ContentOf(r)))
      => /\ log[r].sliced
         /\ log[r].json_str = ContentOf(r)
         /\ pc[r] = "Success"
         /\ resp[r].risks = FromStr(ContentOf(r)).val

C10_Witness ==
  \E r \in Requests :
    LET t == << RiskItem(<<"a">>, <<"a">>, <<"]">>) >> IN
    /\ HandledContent(r)
    /\ ContentOf(r) = Render(t)
    /\ log[r].json_str = Render(t)
    /\ pc[r] = "Success"
    /\ resp[r].risks = t

====
